---- MODULE Spec2Model ----
(***************************************************************************)
(* Defect_Detections: run_inspection_pipeline (main.py) driving            *)
(* preprocess_image, find_and_analyze_ring and visualize_results.          *)
(*                                                                         *)
(* A contour is a sequence of integer points <<x, y>>, as cv2.findContours *)
(* returns them.  Python's None is the string "None" where a string is     *)
(* expected and the empty tuple <<>> where a point is expected.  A result  *)
(* dict is a record whose DOMAIN is the set of keys the code put in it.    *)
(* Radii are kept in fixed point, Scale units per pixel.                   *)
(*                                                                         *)
(* calls holds the locals of calls of find_and_analyze_ring made side by   *)
(* side by several workers; the pipeline itself makes one call at a time.  *)
(*                                                                         *)
(* splitter is a YOLODatasetSplitter of Vehicle_Detection (its ratios, the *)
(* pairs handed to split_dataset and the splits returned); ratios are held *)
(* in units of 1/RatioUnit.                                                *)
(***************************************************************************)
EXTENDS Integers, Sequences, FiniteSets, TLC

VARIABLES image_files, idx, pc, contours, outer_contour, inner_contour,
          centroids, center, result, stages, log, saved, calls, splitter

vars == <<image_files, idx, pc, contours, outer_contour, inner_contour,
          centroids, center, result, stages, log, saved, calls, splitter>>

\* the variables of run_inspection_pipeline and of the call it makes
pipeline == <<image_files, idx, pc, contours, outer_contour, inner_contour,
              centroids, center, result, stages, log, saved>>

(* ------------------------------ bounds --------------------------------- *)

\* most contours the tracer returns for one image
MaxContours == 3

\* length of a one-pixel-wide whisker on a contour of the pool
WhiskerLen == 3

\* vertex radius of the large and of the small contours of the pool
LargeRadius == 9
SmallRadius == 5

\* fixed-point units per pixel of a radius
Scale == 1000

\* calls of find_and_analyze_ring running side by side
NumWorkers == 2

\* most image-label pairs handed to split_dataset
MaxPairs == 4

\* a split ratio is a whole number of 1/RatioUnit
RatioUnit == 4

(* --------------------------- integer helpers --------------------------- *)

Abs(x) == IF x < 0 THEN -x ELSE x

\* Python's int() of a float quotient: truncation toward zero
TruncDiv(a, b) == IF a >= 0 THEN a \div b ELSE -((-a) \div b)

RECURSIVE SqrtSearch(_, _, _)
SqrtSearch(x, lo, hi) ==
    IF hi - lo <= 1 THEN lo
    ELSE LET mid == (lo + hi) \div 2
         IN  IF mid * mid <= x THEN SqrtSearch(x, mid, hi)
                               ELSE SqrtSearch(x, lo, mid)

\* np.sqrt of a squared distance, in fixed point
FixedSqrt(d2) == SqrtSearch(d2 * Scale * Scale, 0, 46340)

RECURSIVE SumSeq(_)
SumSeq(s) == IF s = <<>> THEN 0 ELSE Head(s) + SumSeq(Tail(s))

\* variant: the last index holding the largest value
ArgMaxLast(s) == CHOOSE i \in 1..Len(s) :
                     /\ \A j \in 1..Len(s) : s[j] <= s[i]
                     /\ \A j \in (i + 1)..Len(s) : s[j] < s[i]

\* np.argmax: the first index holding the largest value
ArgMax(s) == CHOOSE i \in 1..Len(s) :
                 /\ \A j \in 1..Len(s) : s[j] <= s[i]
                 /\ \A j \in 1..(i - 1) : s[j] < s[i]

(* ------------------------- OpenCV contour maths ------------------------ *)

Pred(c, i) == IF i = 1 THEN Len(c) ELSE i - 1

\* cv2.contourArea, doubled: |sum of cross products of successive points|
contourArea2(c) ==
    Abs(SumSeq([i \in 1..Len(c) |->
                  c[Pred(c, i)][1] * c[i][2] - c[i][1] * c[Pred(c, i)][2]]))

\* cv2.moments of a contour: m00 doubled, m10 and m01 times six, the sign
\* normalised so that m00 >= 0; all zero for a zero-area contour
moments(c) ==
    LET dxy(i) == c[Pred(c, i)][1] * c[i][2] - c[i][1] * c[Pred(c, i)][2]
        a00 == SumSeq([i \in 1..Len(c) |-> dxy(i)])
        a10 == SumSeq([i \in 1..Len(c) |-> dxy(i) * (c[Pred(c, i)][1] + c[i][1])])
        a01 == SumSeq([i \in 1..Len(c) |-> dxy(i) * (c[Pred(c, i)][2] + c[i][2])])
        sg  == IF a00 > 0 THEN 1 ELSE -1
    IN  IF a00 = 0 THEN [m00 |-> 0, m10 |-> 0, m01 |-> 0]
        ELSE [m00 |-> sg * a00, m10 |-> sg * a10, m01 |-> sg * a01]

\* variant: the quotient rounded to the nearest integer, round(m10 / m00)
CentroidCoordRounded(m1, m0) == (2 * m1 + 3 * m0) \div (6 * m0)

\* int(m['m10'] / m['m00']) with m10 held times six and m00 doubled
CentroidCoord(m1, m0) == TruncDiv(m1, 3 * m0)

\* variant: the half-sum rounded half up
HalfSumRounded(a, b) == (a + b + 1) \div 2

\* int((a + b) / 2)
HalfSum(a, b) == TruncDiv(a + b, 2)

\* variant: a contour is placed before the contours of its own area
RECURSIVE InsertBeforeEqualArea(_, _)
InsertBeforeEqualArea(c, s) ==
    IF s = <<>> THEN <<c>>
    ELSE IF contourArea2(Head(s)) > contourArea2(c)
         THEN <<Head(s)>> \o InsertBeforeEqualArea(c, Tail(s))
         ELSE <<c>> \o s

\* sorted(contours, key=cv2.contourArea, reverse=True): stable, descending
RECURSIVE InsertByArea(_, _)
InsertByArea(c, s) ==
    IF s = <<>> THEN <<c>>
    ELSE IF contourArea2(Head(s)) >= contourArea2(c)
         THEN <<Head(s)>> \o InsertByArea(c, Tail(s))
         ELSE <<c>> \o s

\* variant: reverse=True left out, the smallest area first
RECURSIVE SortByAreaAsc(_)
SortByAreaAsc(s) ==
    IF s = <<>> THEN <<>>
    ELSE LET m == CHOOSE i \in 1..Len(s) :
                      /\ \A j \in 1..Len(s) : contourArea2(s[i]) <= contourArea2(s[j])
                      /\ \A j \in 1..(i - 1) : contourArea2(s[i]) < contourArea2(s[j])
         IN  <<s[m]>> \o SortByAreaAsc(SubSeq(s, 1, m - 1) \o SubSeq(s, m + 1, Len(s)))

RECURSIVE SortByAreaDesc(_)
SortByAreaDesc(s) ==
    IF s = <<>> THEN <<>>
    ELSE InsertByArea(s[Len(s)], SortByAreaDesc(SubSeq(s, 1, Len(s) - 1)))

(* ----------------------------- radial scan ----------------------------- *)

\* variant: the radii measured from the image origin, the center ignored
RadiiFromOrigin(c, ctr) ==
    SubSeq([i \in 1..Len(c) |-> FixedSqrt(c[i][1] * c[i][1] + c[i][2] * c[i][2])],
           1, Len(c))

\* np.sqrt(((contour - (center_x, center_y))**2).sum(axis=2)).flatten()
Radii(c, ctr) ==
    SubSeq([i \in 1..Len(c) |->
              FixedSqrt((c[i][1] - ctr[1]) * (c[i][1] - ctr[1])
                        + (c[i][2] - ctr[2]) * (c[i][2] - ctr[2]))],
           1, Len(c))

\* variant: the differences not wrapped around, the first one 0
DiffsNotCircular(radii) ==
    SubSeq([i \in 1..Len(radii) |->
              IF i = 1 THEN 0 ELSE Abs(radii[i] - radii[i - 1])],
           1, Len(radii))

\* np.abs(radii - np.roll(radii, 1))
Diffs(radii) ==
    SubSeq([i \in 1..Len(radii) |-> Abs(radii[i] - radii[Pred(radii, i)])],
           1, Len(radii))

\* np.max(diffs)
MaxJump(radii) == LET d == Diffs(radii) IN d[ArgMax(d)]

\* variant: the threshold is module state that a returning call raises
JumpThresholdRaisedByCalls ==
    IF \E w \in DOMAIN calls : calls[w].pc = "Returned" THEN 250 ELSE 25

\* JUMP_THRESHOLD = 2.5, held in tenths of a pixel
JUMP_THRESHOLD == 25

\* variant: the threshold rounded up to whole pixels
ExceedsWholePixelThreshold(max_jump) ==
    max_jump > ((JUMP_THRESHOLD + 9) \div 10) * Scale

\* variant: the comparison inverted, max_jump <= JUMP_THRESHOLD
WithinThreshold(max_jump) == 10 * max_jump <= JUMP_THRESHOLD * Scale

\* max_jump > JUMP_THRESHOLD
ExceedsThreshold(max_jump) == 10 * max_jump > JUMP_THRESHOLD * Scale

\* np.argmax(diffs)
DefectIdx(radii) == ArgMax(Diffs(radii))

\* variant: the deviating radius is read at the index of the largest jump
DeviationIdxAtJump(radii) == ArgMax(Diffs(radii))

\* np.argmax(np.abs(radii - avg_radius)), avg_radius = np.mean(radii):
\* |r - sum/n| is compared as |n*r - sum|
DeviationIdx(radii) ==
    ArgMax([i \in 1..Len(radii) |-> Abs(Len(radii) * radii[i] - SumSeq(radii))])

\* variant: the comparison reversed, dev_radius > avg_radius
AboveAverage(radii) ==
    Len(radii) * radii[DeviationIdx(radii)] > SumSeq(radii)

\* dev_radius < avg_radius
BelowAverage(radii) ==
    Len(radii) * radii[DeviationIdx(radii)] < SumSeq(radii)

\* variant: the labels of the outer boundary exchanged
DefectTypeOuterSwapped(name, radii) ==
    IF name = "Outer"
    THEN (IF BelowAverage(radii) THEN "Flash" ELSE "Cut")
    ELSE IF name = "Inner"
         THEN (IF BelowAverage(radii) THEN "Flash" ELSE "Cut")
         ELSE "Unknown"

\* variant: the inner boundary labelled like the outer one
DefectTypeInnerLikeOuter(name, radii) ==
    IF BelowAverage(radii) THEN "Cut" ELSE "Flash"

\* the defect_type chosen for the boundary called name
DefectType(name, radii) ==
    IF name = "Outer"
    THEN (IF BelowAverage(radii) THEN "Cut" ELSE "Flash")
    ELSE IF name = "Inner"
         THEN (IF BelowAverage(radii) THEN "Flash" ELSE "Cut")
         ELSE "Unknown"

\* variant: the Defective dict without its center
DefectiveResultNoCenter(name, c, ctr) ==
    LET radii == Radii(c, ctr)
    IN  [status |-> "Defective", defect_type |-> DefectType(name, radii),
         location |-> c[DefectIdx(radii)]]

\* the dict returned when the boundary called name shows a defect
DefectiveResult(name, c, ctr) ==
    LET radii == Radii(c, ctr)
    IN  [status |-> "Defective", defect_type |-> DefectType(name, radii),
         location |-> c[DefectIdx(radii)], center |-> ctr]

\* variant: the two error messages exchanged
SegmentationFailedAsMoments ==
    [status |-> "Error", defect_type |-> "Could not calculate moments"]

\* {"status": "Error", "defect_type": "Segmentation Failed"}
SegmentationFailedResult ==
    [status |-> "Error", defect_type |-> "Segmentation Failed"]

\* variant: a degenerate contour reported as a sound ring
MomentsFailedAsGood ==
    [status |-> "Good", defect_type |-> "None", location |-> <<>>]

\* {"status": "Error", "defect_type": "Could not calculate moments"}
MomentsFailedResult ==
    [status |-> "Error", defect_type |-> "Could not calculate moments"]

\* variant: the Good dict keeps the placeholder defect type
GoodResultUntyped ==
    [status |-> "Good", defect_type |-> "Unknown", location |-> <<>>]

\* {"status": "Good", "defect_type": None, "location": None}
GoodResult == [status |-> "Good", defect_type |-> "None", location |-> <<>>]

\* len(contours) < 2
TooFewContours(cs) == Len(cs) < 2

\* a division by m00 in the try block raises ZeroDivisionError
ZeroDivisionError(m_outer, m_inner) == m_outer.m00 = 0 \/ m_inner.m00 = 0

\* variant: the inner contour scanned first
LoopItemInnerFirst(k, o, i) ==
    IF k = 1 THEN [contour |-> i, name |-> "Inner"]
             ELSE [contour |-> o, name |-> "Outer"]

\* variant: the boundary names in lower case
LoopItemLowerCase(k, o, i) ==
    IF k = 1 THEN [contour |-> o, name |-> "outer"]
             ELSE [contour |-> i, name |-> "inner"]

\* the k-th item of [(outer_contour, "Outer"), (inner_contour, "Inner")]
LoopItem(k, o, i) ==
    IF k = 1 THEN [contour |-> o, name |-> "Outer"]
             ELSE [contour |-> i, name |-> "Inner"]

(* ------------------------------- inputs -------------------------------- *)

\* nominal centre of the contours of the pool; every coordinate stays >= 0
Mid == LargeRadius + WhiskerLen + 1

Modifications == {"sharp", "cut", "whisker_out", "whisker_in"}

\* the points tracing one vertex of a diamond of radius r about (Mid, Mid):
\* u is the outward unit vector of the vertex, the traversal crosses it in
\* direction (-u[2], u[1])
Feature(r, u, m) ==
    LET v == <<Mid + r * u[1], Mid + r * u[2]>>
        k == r \div 2
        tip(d) == <<v[1] + d * u[1], v[2] + d * u[2]>>
    IN  CASE m = "sharp"       -> <<v>>
          [] m = "cut"         -> << <<v[1] - k * u[1] + k * u[2], v[2] - k * u[2] - k * u[1]>>,
                                     <<v[1] - k * u[1] - k * u[2], v[2] - k * u[2] + k * u[1]>> >>
          [] m = "whisker_out" -> <<v, tip(WhiskerLen), v>>
          [] m = "whisker_in"  -> <<v, tip(-WhiskerLen), v>>
          [] m = "hook"        -> <<v, tip(WhiskerLen), tip(-1)>>

Rotate(s, k) == SubSeq(s, k, Len(s)) \o SubSeq(s, 1, k - 1)

\* a diamond of radius r whose vertex at side ("E" or "N") carries the
\* modification m, traversed E, N, W, S; start = 1 begins the traversal at
\* the last point of the modified vertex instead of at E, start = 2 at the
\* point before it
Gem(r, side, m, start) ==
    LET e == IF side = "E" THEN Feature(r, <<1, 0>>, m) ELSE <<<<Mid + r, Mid>>>>
        n == IF side = "N" THEN Feature(r, <<0, 1>>, m) ELSE <<<<Mid, Mid + r>>>>
        c == e \o n \o << <<Mid - r, Mid>>, <<Mid, Mid - r>> >>
        k == IF side = "E" THEN Len(e) ELSE Len(e) + Len(n)
    IN  IF start = 0 THEN c ELSE Rotate(c, k - start + 1)

\* a one-pixel speck: a contour of one point and zero area
Speck == << <<Mid, Mid>> >>

\* a large diamond with a whisker that comes back one pixel short of the
\* vertex, traced from the tip of the whisker: the last point is the vertex
Hooked == Gem(LargeRadius, "N", "hook", 2)

\* a kite about (Mid, Mid): the E vertex at radius r + d, the W vertex at
\* radius r - d, N and S at radius r, traced from its start-th vertex; its
\* centroid lies 2d/3 to the right of (Mid, Mid)
Kite(r, d, start) ==
    Rotate(<< <<Mid + r + d, Mid>>, <<Mid, Mid + r>>,
              <<Mid - r + d, Mid>>, <<Mid, Mid - r>> >>, start)

\* the contour c moved dx pixels to the left
ShiftedLeft(c, dx) == [i \in 1..Len(c) |-> <<c[i][1] - dx, c[i][2]>>]

\* images of a kite with a small diamond as far to the left of (Mid, Mid) as
\* the centroid of the kite is to its right, so that the registration center
\* is (Mid, Mid): the E and the W vertex of the kite are the two points
\* farthest from the average radius, one above it and one below
TieImages ==
    {[loads |-> TRUE,
      contours |-> <<Kite(LargeRadius, WhiskerLen, start),
                     ShiftedLeft(Gem(SmallRadius, "E", "sharp", 0),
                                 (2 * WhiskerLen) \div 3)>>] : start \in 1..4}

\* the traversal starts tried for a modification: both for a whisker
Starts(m) == IF m \in {"whisker_out", "whisker_in"} THEN {0, 1} ELSE {0}

ContourPool ==
    UNION {{Gem(LargeRadius, "N", m, s) : s \in Starts(m)} : m \in Modifications}
    \cup UNION {{Gem(SmallRadius, "E", m, s) : s \in Starts(m)} : m \in Modifications}
    \cup {Speck, Hooked}

ContourLists == UNION {[1..n -> ContourPool] : n \in 0..MaxContours}

\* an image file: whether cv2.imread can load it and, if so, the contours
\* cv2.findContours traces in its thresholded mask
Images ==
    {[loads |-> FALSE, contours |-> <<>>]}
    \cup {[loads |-> TRUE, contours |-> cs] : cs \in ContourLists}

\* the kinds of image of a batch: unreadable, blank, specks only, a sound
\* ring, a ring with a whisker on its outer or on its inner boundary
BatchImages ==
    {[loads |-> FALSE, contours |-> <<>>],
     [loads |-> TRUE, contours |-> <<>>],
     [loads |-> TRUE, contours |-> <<Speck, Speck>>],
     [loads |-> TRUE, contours |-> <<Gem(LargeRadius, "N", "sharp", 0),
                                     Gem(SmallRadius, "E", "sharp", 0)>>],
     [loads |-> TRUE, contours |-> <<Gem(LargeRadius, "N", "whisker_out", 0),
                                     Gem(SmallRadius, "E", "sharp", 0)>>],
     [loads |-> TRUE, contours |-> <<Gem(LargeRadius, "N", "sharp", 0),
                                     Gem(SmallRadius, "E", "whisker_in", 0)>>]}

\* image_files of run_inspection_pipeline has five entries
NumImageFiles == 5

(* ------------------------------- state --------------------------------- *)

NoPoint == <<>>
NoContour == <<>>
NoResult == [status |-> "None"]

\* no YOLODatasetSplitter has been made
NoSplitter == [pc |-> "None"]

Locals(cs, o, i, cen, ctr, res, st) ==
    /\ contours' = cs
    /\ outer_contour' = o
    /\ inner_contour' = i
    /\ centroids' = cen
    /\ center' = ctr
    /\ result' = res
    /\ stages' = st

StartState ==
    /\ idx = 0
    /\ pc = "Loop"
    /\ contours = <<>>
    /\ outer_contour = NoContour
    /\ inner_contour = NoContour
    /\ centroids = <<>>
    /\ center = NoPoint
    /\ result = NoResult
    /\ stages = <<>>
    /\ log = <<>>
    /\ saved = <<>>

\* one image file, any image of the pool
Init ==
    /\ image_files \in [1..1 -> Images]
    /\ StartState
    /\ calls = <<>>
    /\ splitter = NoSplitter

\* the five image files, each of one of the batch kinds
InitBatch ==
    /\ image_files \in [1..NumImageFiles -> BatchImages]
    /\ StartState
    /\ calls = <<>>
    /\ splitter = NoSplitter

\* two image files, each of a batch kind or of a kite
InitTies ==
    /\ image_files \in [1..2 -> BatchImages \cup TieImages]
    /\ StartState
    /\ calls = <<>>
    /\ splitter = NoSplitter

(* ------------------------ run_inspection_pipeline ---------------------- *)

\* for file_name in image_files: logging.info("Processing image")
NextFile ==
    /\ pc = "Loop"
    /\ idx < Len(image_files)
    /\ idx' = idx + 1
    /\ pc' = "Preprocess"
    /\ log' = Append(log, <<"INFO", "Processing image", idx + 1>>)
    /\ UNCHANGED <<splitter, calls, image_files, contours, outer_contour, inner_contour,
                   centroids, center, result, stages, saved>>

\* preprocess_image returns (None, None): the loop continues
PreprocessFail ==
    /\ pc = "Preprocess"
    /\ ~image_files[idx].loads
    /\ pc' = "Loop"
    /\ log' = Append(log, <<"ERROR", "Could not load image", idx>>)
    /\ UNCHANGED <<splitter, calls, image_files, idx, contours, outer_contour, inner_contour,
                   centroids, center, result, stages, saved>>

\* preprocess_image returns the image; find_and_analyze_ring is called
PreprocessOk ==
    /\ pc = "Preprocess"
    /\ image_files[idx].loads
    /\ pc' = "Segmentation"
    /\ Locals(<<>>, NoContour, NoContour, <<>>, NoPoint, NoResult, <<"Segmentation">>)
    /\ UNCHANGED <<splitter, calls, image_files, idx, log, saved>>

\* cv2.threshold, cv2.findContours
Segmentation ==
    /\ pc = "Segmentation"
    /\ pc' = "BoundarySelection"
    /\ contours' = image_files[idx].contours
    /\ stages' = Append(stages, "BoundarySelection")
    /\ UNCHANGED <<splitter, calls, image_files, idx, outer_contour, inner_contour, centroids,
                   center, result, log, saved>>

\* if len(contours) < 2: return Error
SegmentationFailed ==
    /\ pc = "BoundarySelection"
    /\ TooFewContours(contours)
    /\ pc' = "LogResult"
    /\ result' = SegmentationFailedResult
    /\ UNCHANGED <<splitter, calls, image_files, idx, contours, outer_contour, inner_contour,
                   centroids, center, stages, log, saved>>

\* contours = sorted(...)[:2]; outer_contour, inner_contour = contours
BoundarySelection ==
    /\ pc = "BoundarySelection"
    /\ ~TooFewContours(contours)
    /\ LET top == SubSeq(SortByAreaDesc(contours), 1, 2)
       IN  /\ contours' = top
           /\ outer_contour' = top[1]
           /\ inner_contour' = top[2]
    /\ pc' = "CentroidRegistration"
    /\ stages' = Append(stages, "CentroidRegistration")
    /\ UNCHANGED <<splitter, calls, image_files, idx, centroids, center, result, log, saved>>

\* ZeroDivisionError in the try block
MomentsFailed ==
    /\ pc = "CentroidRegistration"
    /\ ZeroDivisionError(moments(outer_contour), moments(inner_contour))
    /\ pc' = "LogResult"
    /\ result' = MomentsFailedResult
    /\ UNCHANGED <<splitter, calls, image_files, idx, contours, outer_contour, inner_contour,
                   centroids, center, stages, log, saved>>

\* cx_outer, cy_outer, cx_inner, cy_inner, center_x, center_y
CentroidRegistration ==
    /\ pc = "CentroidRegistration"
    /\ ~ZeroDivisionError(moments(outer_contour), moments(inner_contour))
    /\ LET m_outer == moments(outer_contour)
           m_inner == moments(inner_contour)
           cx_outer == CentroidCoord(m_outer.m10, m_outer.m00)
           cy_outer == CentroidCoord(m_outer.m01, m_outer.m00)
           cx_inner == CentroidCoord(m_inner.m10, m_inner.m00)
           cy_inner == CentroidCoord(m_inner.m01, m_inner.m00)
       IN  /\ centroids' = << <<cx_outer, cy_outer>>, <<cx_inner, cy_inner>> >>
           /\ center' = <<HalfSum(cx_outer, cx_inner), HalfSum(cy_outer, cy_inner)>>
    /\ pc' = "AnomalyScanOuter"
    /\ stages' = Append(stages, "AnomalyScanOuter")
    /\ UNCHANGED <<splitter, calls, image_files, idx, contours, outer_contour, inner_contour,
                   result, log, saved>>

\* first pass of the for loop, max_jump > JUMP_THRESHOLD: return Defective
OuterDefect ==
    /\ pc = "AnomalyScanOuter"
    /\ LET item == LoopItem(1, outer_contour, inner_contour)
       IN  /\ ExceedsThreshold(MaxJump(Radii(item.contour, center)))
           /\ result' = DefectiveResult(item.name, item.contour, center)
    /\ pc' = "LogResult"
    /\ UNCHANGED <<splitter, calls, image_files, idx, contours, outer_contour, inner_contour,
                   centroids, center, stages, log, saved>>

\* variant: the return of Good sits inside the for loop
OuterPassReturnsGood ==
    /\ pc = "AnomalyScanOuter"
    /\ LET item == LoopItem(1, outer_contour, inner_contour)
       IN  ~ExceedsThreshold(MaxJump(Radii(item.contour, center)))
    /\ pc' = "LogResult"
    /\ result' = GoodResult
    /\ UNCHANGED <<splitter, calls, image_files, idx, contours, outer_contour, inner_contour,
                   centroids, center, stages, log, saved>>

\* first pass of the for loop, no defect: on to the inner contour
OuterPass ==
    /\ pc = "AnomalyScanOuter"
    /\ LET item == LoopItem(1, outer_contour, inner_contour)
       IN  ~ExceedsThreshold(MaxJump(Radii(item.contour, center)))
    /\ pc' = "AnomalyScanInner"
    /\ stages' = Append(stages, "AnomalyScanInner")
    /\ UNCHANGED <<splitter, calls, image_files, idx, contours, outer_contour, inner_contour,
                   centroids, center, result, log, saved>>

\* second pass of the for loop, max_jump > JUMP_THRESHOLD: return Defective
InnerDefect ==
    /\ pc = "AnomalyScanInner"
    /\ LET item == LoopItem(2, outer_contour, inner_contour)
       IN  /\ ExceedsThreshold(MaxJump(Radii(item.contour, center)))
           /\ result' = DefectiveResult(item.name, item.contour, center)
    /\ pc' = "LogResult"
    /\ UNCHANGED <<splitter, calls, image_files, idx, contours, outer_contour, inner_contour,
                   centroids, center, stages, log, saved>>

\* the for loop ends: return Good
InnerPass ==
    /\ pc = "AnomalyScanInner"
    /\ LET item == LoopItem(2, outer_contour, inner_contour)
       IN  ~ExceedsThreshold(MaxJump(Radii(item.contour, center)))
    /\ pc' = "LogResult"
    /\ result' = GoodResult
    /\ UNCHANGED <<splitter, calls, image_files, idx, contours, outer_contour, inner_contour,
                   centroids, center, stages, log, saved>>

\* the messages logged after find_and_analyze_ring returns
ResultMessages(res, i) ==
    <<<<"INFO", "Analysis result", i>>>>
    \o (IF res.status = "Defective" THEN <<<<"INFO", "Detected Defect Type", i>>>>
        ELSE IF res.status = "Error" THEN <<<<"ERROR", "An error occurred", i>>>>
        ELSE <<>>)

LogResult ==
    /\ pc = "LogResult"
    /\ log' = log \o ResultMessages(result, idx)
    /\ pc' = "Visualize"
    /\ UNCHANGED <<splitter, calls, image_files, idx, contours, outer_contour, inner_contour,
                   centroids, center, result, stages, saved>>

\* the keys visualize_results reads before it draws anything
KeysRead == {"status", "defect_type", "location"}

\* visualize_results: result["location"] raises KeyError when the key is absent
VisualizeRaises(res) == ~(KeysRead \subseteq DOMAIN res)

\* visualize_results saves the annotated image; the loop goes on
Visualize ==
    /\ pc = "Visualize"
    /\ ~VisualizeRaises(result)
    /\ saved' = Append(saved, idx)
    /\ log' = Append(log, <<"INFO", "Saved result image", idx>>)
    /\ pc' = "Loop"
    /\ UNCHANGED <<splitter, calls, image_files, idx, contours, outer_contour, inner_contour,
                   centroids, center, result, stages>>

\* the KeyError leaves visualize_results and run_inspection_pipeline
VisualizeKeyError ==
    /\ pc = "Visualize"
    /\ VisualizeRaises(result)
    /\ pc' = "Raised"
    /\ UNCHANGED <<splitter, calls, image_files, idx, contours, outer_contour, inner_contour,
                   centroids, center, result, stages, log, saved>>

\* the for loop is exhausted: logging.info("--- Inspection Complete ---")
Complete ==
    /\ pc = "Loop"
    /\ idx = Len(image_files)
    /\ pc' = "Complete"
    /\ log' = Append(log, <<"INFO", "Inspection Complete", 0>>)
    /\ UNCHANGED <<splitter, calls, image_files, idx, contours, outer_contour, inner_contour,
                   centroids, center, result, stages, saved>>

Next ==
    \/ NextFile
    \/ PreprocessFail
    \/ PreprocessOk
    \/ Segmentation
    \/ SegmentationFailed
    \/ BoundarySelection
    \/ MomentsFailed
    \/ CentroidRegistration
    \/ OuterDefect
    \/ OuterPass
    \/ InnerDefect
    \/ InnerPass
    \/ LogResult
    \/ Visualize
    \/ VisualizeKeyError
    \/ Complete

Spec == Init /\ [][Next]_vars

SpecBatch == InitBatch /\ [][Next]_vars

SpecTies == InitTies /\ [][Next]_vars

(* ------------------ find_and_analyze_ring, side by side ---------------- *)

Workers == 1..NumWorkers

\* int((cx_outer + cx_inner) / 2), int((cy_outer + cy_inner) / 2)
RegistrationCenter(o, i) ==
    LET m_outer == moments(o)
        m_inner == moments(i)
    IN  <<HalfSum(CentroidCoord(m_outer.m10, m_outer.m00),
                  CentroidCoord(m_inner.m10, m_inner.m00)),
          HalfSum(CentroidCoord(m_outer.m01, m_outer.m00),
                  CentroidCoord(m_inner.m01, m_inner.m00))>>

\* find_and_analyze_ring as a function of the contours traced in its image:
\* the result of the call run on its own
find_and_analyze_ring(cs) ==
    IF TooFewContours(cs) THEN SegmentationFailedResult
    ELSE LET top == SubSeq(SortByAreaDesc(cs), 1, 2)
         IN  IF ZeroDivisionError(moments(top[1]), moments(top[2]))
             THEN MomentsFailedResult
             ELSE LET ctr == RegistrationCenter(top[1], top[2])
                      outer == LoopItem(1, top[1], top[2])
                      inner == LoopItem(2, top[1], top[2])
                  IN  IF ExceedsThreshold(MaxJump(Radii(outer.contour, ctr)))
                      THEN DefectiveResult(outer.name, outer.contour, ctr)
                      ELSE IF ExceedsThreshold(MaxJump(Radii(inner.contour, ctr)))
                           THEN DefectiveResult(inner.name, inner.contour, ctr)
                           ELSE GoodResult

\* the locals of a call on an image with the contours cs, before its first
\* statement
NewCall(cs) ==
    [image |-> cs, pc |-> "Called", contours |-> <<>>,
     outer_contour |-> NoContour, inner_contour |-> NoContour,
     center |-> NoPoint, result |-> NoResult, overlapped |-> FALSE]

\* the images the workers are given: the loadable kinds of a batch
WorkerImages == {img.contours : img \in {b \in BatchImages : b.loads}}

\* every worker has been handed an image; the pipeline is not running
InitPar ==
    /\ image_files = <<>>
    /\ StartState
    /\ calls \in [Workers -> {NewCall(cs) : cs \in WorkerImages}]
    /\ splitter = NoSplitter

\* another call has run its first statement and has not returned
Overlaps(w) == \E v \in Workers \ {w} : calls[v].pc \notin {"Called", "Returned"}

\* variant: every call reads the image buffer of the first worker
WorkerImageShared(w) == calls[1].image

\* processed_image, the argument of the call of worker w
WorkerImage(w) == calls[w].image

\* worker w moves on with the locals c
Advance(w, c) ==
    /\ calls' = [calls EXCEPT ![w] = [c EXCEPT !.overlapped = @ \/ Overlaps(w)]]
    /\ UNCHANGED <<pipeline, splitter>>

\* cv2.threshold, cv2.findContours
WSegmentation(w) ==
    /\ calls[w].pc = "Called"
    /\ Advance(w, [calls[w] EXCEPT !.contours = WorkerImage(w),
                                   !.pc = "BoundarySelection"])

\* if len(contours) < 2: return Error
WSegmentationFailed(w) ==
    /\ calls[w].pc = "BoundarySelection"
    /\ TooFewContours(calls[w].contours)
    /\ Advance(w, [calls[w] EXCEPT !.result = SegmentationFailedResult,
                                   !.pc = "Returned"])

\* contours = sorted(...)[:2]; outer_contour, inner_contour = contours
WBoundarySelection(w) ==
    /\ calls[w].pc = "BoundarySelection"
    /\ ~TooFewContours(calls[w].contours)
    /\ LET top == SubSeq(SortByAreaDesc(calls[w].contours), 1, 2)
       IN  Advance(w, [calls[w] EXCEPT !.contours = top,
                                       !.outer_contour = top[1],
                                       !.inner_contour = top[2],
                                       !.pc = "CentroidRegistration"])

\* ZeroDivisionError in the try block
WMomentsFailed(w) ==
    /\ calls[w].pc = "CentroidRegistration"
    /\ ZeroDivisionError(moments(calls[w].outer_contour),
                         moments(calls[w].inner_contour))
    /\ Advance(w, [calls[w] EXCEPT !.result = MomentsFailedResult,
                                   !.pc = "Returned"])

\* center_x, center_y
WCentroidRegistration(w) ==
    /\ calls[w].pc = "CentroidRegistration"
    /\ ~ZeroDivisionError(moments(calls[w].outer_contour),
                          moments(calls[w].inner_contour))
    /\ Advance(w, [calls[w] EXCEPT
                       !.center = RegistrationCenter(calls[w].outer_contour,
                                                     calls[w].inner_contour),
                       !.pc = "AnomalyScanOuter"])

\* pass k of the for loop of worker w
WLoopItem(w, k) == LoopItem(k, calls[w].outer_contour, calls[w].inner_contour)

\* max_jump > JUMP_THRESHOLD in pass k of worker w
WExceeds(w, k) ==
    ExceedsThreshold(MaxJump(Radii(WLoopItem(w, k).contour, calls[w].center)))

\* first pass of the for loop, max_jump > JUMP_THRESHOLD: return Defective
WOuterDefect(w) ==
    /\ calls[w].pc = "AnomalyScanOuter"
    /\ WExceeds(w, 1)
    /\ Advance(w, [calls[w] EXCEPT
                       !.result = DefectiveResult(WLoopItem(w, 1).name,
                                                  WLoopItem(w, 1).contour,
                                                  calls[w].center),
                       !.pc = "Returned"])

\* first pass of the for loop, no defect: on to the inner contour
WOuterPass(w) ==
    /\ calls[w].pc = "AnomalyScanOuter"
    /\ ~WExceeds(w, 1)
    /\ Advance(w, [calls[w] EXCEPT !.pc = "AnomalyScanInner"])

\* second pass of the for loop, max_jump > JUMP_THRESHOLD: return Defective
WInnerDefect(w) ==
    /\ calls[w].pc = "AnomalyScanInner"
    /\ WExceeds(w, 2)
    /\ Advance(w, [calls[w] EXCEPT
                       !.result = DefectiveResult(WLoopItem(w, 2).name,
                                                  WLoopItem(w, 2).contour,
                                                  calls[w].center),
                       !.pc = "Returned"])

\* the for loop ends: return Good
WInnerPass(w) ==
    /\ calls[w].pc = "AnomalyScanInner"
    /\ ~WExceeds(w, 2)
    /\ Advance(w, [calls[w] EXCEPT !.result = GoodResult, !.pc = "Returned"])

\* any worker takes the next step of its call
NextPar ==
    \E w \in Workers :
        \/ WSegmentation(w)
        \/ WSegmentationFailed(w)
        \/ WBoundarySelection(w)
        \/ WMomentsFailed(w)
        \/ WCentroidRegistration(w)
        \/ WOuterDefect(w)
        \/ WOuterPass(w)
        \/ WInnerDefect(w)
        \/ WInnerPass(w)

SpecPar == InitPar /\ [][NextPar]_vars


(* -------------------------- YOLODatasetSplitter ------------------------ *)

\* the ratios tried, in units of 1/RatioUnit: from -1/2 to 3/2
Ratios == (-(RatioUnit \div 2))..(RatioUnit + RatioUnit \div 2)

\* the lists of pairs tried: n distinct pairs, named 1..n
PairLists == {[i \in 1..n |-> i] : n \in 0..MaxPairs}

\* the arguments of YOLODatasetSplitter(...) and of split_dataset(pairs),
\* before __init__ has run
InitSplit ==
    /\ image_files = <<>>
    /\ StartState
    /\ calls = <<>>
    /\ splitter \in {[pc |-> "New", train_ratio |-> a, val_ratio |-> b,
                      test_ratio |-> c, pairs |-> ps,
                      splits |-> [train |-> <<>>, val |-> <<>>, test |-> <<>>]] :
                        a \in Ratios, b \in Ratios, c \in Ratios, ps \in PairLists}

\* abs(train_ratio + val_ratio + test_ratio - 1.0) > 1e-6: with ratios that
\* are whole numbers of 1/RatioUnit, a sum other than 1 is off by at least
\* 1/RatioUnit
RatiosRejected(a, b, c) == a + b + c # RatioUnit

\* __init__ raises ValueError("Split ratios must sum to 1.0")
SplitterInitRaises ==
    /\ splitter.pc = "New"
    /\ RatiosRejected(splitter.train_ratio, splitter.val_ratio, splitter.test_ratio)
    /\ splitter' = [splitter EXCEPT !.pc = "ValueError"]
    /\ UNCHANGED <<pipeline, calls>>

\* __init__ returns
SplitterInit ==
    /\ splitter.pc = "New"
    /\ ~RatiosRejected(splitter.train_ratio, splitter.val_ratio, splitter.test_ratio)
    /\ splitter' = [splitter EXCEPT !.pc = "Constructed"]
    /\ UNCHANGED <<pipeline, calls>>

\* the orders random.shuffle can leave the list s in
Shuffles(s) ==
    {[i \in 1..Len(s) |-> s[p[i]]] :
        p \in {q \in [1..Len(s) -> 1..Len(s)] :
                  \A i, j \in 1..Len(s) : q[i] = q[j] => i = j}}

\* int(total * ratio)
Count(total, ratio) == TruncDiv(total * ratio, RatioUnit)

\* a slice bound of Python: a negative index counts from the end, and the
\* bound is clipped to 0..n
SliceBound(i, n) ==
    LET k == IF i < 0 THEN i + n ELSE i
    IN  IF k < 0 THEN 0 ELSE IF k > n THEN n ELSE k

\* s[lo:hi], with indices counted from 0
Slice(s, lo, hi) == SubSeq(s, SliceBound(lo, Len(s)) + 1, SliceBound(hi, Len(s)))

\* split_dataset(pairs)
SplitDataset ==
    /\ splitter.pc = "Constructed"
    /\ \E shuffled \in Shuffles(splitter.pairs) :
          LET total == Len(shuffled)
              train_count == Count(total, splitter.train_ratio)
              val_count == Count(total, splitter.val_ratio)
          IN  splitter' =
                  [splitter EXCEPT
                      !.pc = "Returned",
                      !.pairs = shuffled,
                      !.splits = [train |-> Slice(shuffled, 0, train_count),
                                  val |-> Slice(shuffled, train_count,
                                                train_count + val_count),
                                  test |-> Slice(shuffled, train_count + val_count,
                                                 total)]]
    /\ UNCHANGED <<pipeline, calls>>

NextSplit ==
    \/ SplitterInitRaises
    \/ SplitterInit
    \/ SplitDataset

SpecSplit == InitSplit /\ [][NextSplit]_vars

(* ------------------------------- claims -------------------------------- *)

\* find_and_analyze_ring has just returned for image_files[idx]
Returned == pc = "LogResult"

\* the contours the tracer found in the image under analysis
Found == image_files[idx].contours

\* center_x, center_y have been computed in the current call
Registered == center # NoPoint

\* largest coordinate of a point of the pool
MaxCoord == 2 * Mid

\* C1: when the tracer yields 0 or 1 contours the call returns Error /
\* "Segmentation Failed", having entered neither the centroid nor the scan
\* stage and having computed no centroid and no center.
C1_SegmentationFailed ==
    (Returned /\ Len(Found) < 2) =>
        /\ result = [status |-> "Error", defect_type |-> "Segmentation Failed"]
        /\ stages = <<"Segmentation", "BoundarySelection">>
        /\ centroids = <<>>
        /\ center = NoPoint

C1_Witness ==
    /\ Returned
    /\ Len(Found) = 1
    /\ contourArea2(Found[1]) > 0
    /\ result.status = "Error"

\* C2: with two or more contours found, if the outer or the inner selected
\* contour encloses zero area the call returns Error / "Could not calculate
\* moments", never Good or Defective.
C2_MomentsFailed ==
    (/\ Returned
     /\ Len(Found) >= 2
     /\ (contourArea2(outer_contour) = 0 \/ contourArea2(inner_contour) = 0)) =>
        result = [status |-> "Error", defect_type |-> "Could not calculate moments"]

C2_Witness ==
    /\ Returned
    /\ Len(Found) >= 2
    /\ contourArea2(outer_contour) > 0
    /\ contourArea2(inner_contour) = 0
    /\ result.status = "Error"

\* numerator and denominator of the exact centroid coordinate k of contour c:
\* m10/m00 (k = 1) or m01/m00 (k = 2)
CentroidNum(c, k) == IF k = 1 THEN moments(c).m10 ELSE moments(c).m01
CentroidDen(c) == 3 * moments(c).m00

\* n is an integer nearest to the exact midpoint of the two centroids in
\* coordinate k: |(ao/bo + ai/bi)/2 - n| <= 1/2
NearestToMidpoint(k, n) ==
    LET ao == CentroidNum(outer_contour, k)
        bo == CentroidDen(outer_contour)
        ai == CentroidNum(inner_contour, k)
        bi == CentroidDen(inner_contour)
    IN  Abs(ao * bi + ai * bo - 2 * n * bo * bi) <= bo * bi

\* n is the truncated half-sum of the two truncated centroid coordinates k
TruncatedMidpoint(k, n) ==
    LET ao == CentroidNum(outer_contour, k)
        bo == CentroidDen(outer_contour)
        ai == CentroidNum(inner_contour, k)
        bi == CentroidDen(inner_contour)
    IN  \E co \in 0..MaxCoord :
            /\ bo * co <= ao
            /\ ao < bo * (co + 1)
            /\ \E ci \in 0..MaxCoord :
                   /\ bi * ci <= ai
                   /\ ai < bi * (ci + 1)
                   /\ 2 * n <= co + ci
                   /\ co + ci <= 2 * n + 1

\* C3 as stated: each coordinate of the center is the average of the outer
\* and the inner centroid rounded to the nearest integer pixel.
C3_CenterIsRoundedMidpoint ==
    Registered => \A k \in 1..2 : NearestToMidpoint(k, center[k])

\* C3 amended: each coordinate of the center is the half-sum, truncated to an
\* integer, of the two centroid coordinates each truncated to an integer; a
\* Defective result returns that center.
C3_CenterIsTruncatedMidpoint ==
    Registered =>
        /\ \A k \in 1..2 : TruncatedMidpoint(k, center[k])
        /\ (Returned /\ result.status = "Defective") => result.center = center

C3_Witness ==
    /\ Returned
    /\ Registered
    /\ result.status = "Defective"
    /\ result.center = center
    /\ \E k \in 1..2 : ~NearestToMidpoint(k, center[k])

\* the radii of the selected contours about the registration center
OuterRadii == Radii(outer_contour, center)
InnerRadii == Radii(inner_contour, center)

\* the circular jump of radius at index i
JumpAt(radii, i) == Abs(radii[i] - radii[IF i = 1 THEN Len(radii) ELSE i - 1])

\* some circular jump is above 2.5 pixels / none is
JumpOver(radii) ==
    \E i \in 1..Len(radii) : 10 * JumpAt(radii, i) > JUMP_THRESHOLD * Scale
JumpWithin(radii) ==
    \A i \in 1..Len(radii) : 10 * JumpAt(radii, i) <= JUMP_THRESHOLD * Scale

\* j is jump_index: the earliest index of the largest circular jump
IsJumpIndex(radii, j) ==
    /\ \A i \in 1..Len(radii) : JumpAt(radii, i) <= JumpAt(radii, j)
    /\ \A i \in 1..(j - 1) : JumpAt(radii, i) < JumpAt(radii, j)

\* n * |r_i - avg_radius|
DeviationAt(radii, i) == Abs(Len(radii) * radii[i] - SumSeq(radii))

\* d is deviation_index: the earliest index of the largest deviation
IsDeviationIndex(radii, d) ==
    /\ \A i \in 1..Len(radii) : DeviationAt(radii, i) <= DeviationAt(radii, d)
    /\ \A i \in 1..(d - 1) : DeviationAt(radii, i) < DeviationAt(radii, d)

\* the radius at index i is strictly below avg_radius
BelowMean(radii, i) == Len(radii) * radii[i] < SumSeq(radii)

\* dev_radius < avg_radius
DevBelowMean(radii) ==
    \E d \in 1..Len(radii) : IsDeviationIndex(radii, d) /\ BelowMean(radii, d)

\* all radii are equal but one, which lies more than 2.5 pixels outside /
\* inside the others
SpikeOutward(radii) ==
    /\ Len(radii) >= 3
    /\ \E i \in 1..Len(radii) :
          /\ \A j, k \in (1..Len(radii)) \ {i} : radii[j] = radii[k]
          /\ \A j \in (1..Len(radii)) \ {i} :
                10 * (radii[i] - radii[j]) > JUMP_THRESHOLD * Scale
SpikeInward(radii) ==
    /\ Len(radii) >= 3
    /\ \E i \in 1..Len(radii) :
          /\ \A j, k \in (1..Len(radii)) \ {i} : radii[j] = radii[k]
          /\ \A j \in (1..Len(radii)) \ {i} :
                10 * (radii[j] - radii[i]) > JUMP_THRESHOLD * Scale

C5_OuterBeforeInner ==
    (Returned /\ Registered) =>
        LET ro == OuterRadii
            ri == InnerRadii
        IN  /\ (JumpOver(ro) /\ JumpOver(ri)) =>
                  /\ result.status = "Defective"
                  /\ \E j \in 1..Len(ro) :
                        /\ IsJumpIndex(ro, j)
                        /\ result.location = outer_contour[j]
                  /\ result.defect_type =
                        (IF DevBelowMean(ro) THEN "Cut" ELSE "Flash")
                  /\ \A i \in 1..Len(stages) : stages[i] # "AnomalyScanInner"
            /\ (\E i \in 1..Len(stages) : stages[i] = "AnomalyScanInner") =>
                  JumpWithin(ro)

C5_Witness ==
    /\ Returned
    /\ Registered
    /\ result.status = "Defective"
    /\ LET ro == OuterRadii
           ri == InnerRadii
       IN  /\ JumpOver(ro)
           /\ JumpOver(ri)
           /\ DevBelowMean(ro) = DevBelowMean(ri)
    /\ \A i \in 1..Len(inner_contour) : inner_contour[i] # result.location

\* the boundary that reports the defect: the outer one when it has a jump
\* above the threshold, else the inner one
Reporting ==
    LET ro == OuterRadii
    IN  IF JumpOver(ro)
        THEN [contour |-> outer_contour, radii |-> ro, low |-> "Cut", high |-> "Flash"]
        ELSE [contour |-> inner_contour, radii |-> InnerRadii, low |-> "Flash", high |-> "Cut"]

\* C6: in a Defective result location is the reporting boundary's point at
\* jump_index and center is the registration center; the defect type is
\* decided by the radius at deviation_index, also when that index differs
\* from jump_index.
C6_LocationAtJumpIndex ==
    (Returned /\ result.status = "Defective") =>
        /\ result.center = center
        /\ LET rep == Reporting
               radii == rep.radii
           IN  \E j, d \in 1..Len(radii) :
                  /\ IsJumpIndex(radii, j)
                  /\ IsDeviationIndex(radii, d)
                  /\ result.location = rep.contour[j]
                  /\ result.defect_type =
                        (IF BelowMean(radii, d) THEN rep.low ELSE rep.high)

C6_Witness ==
    /\ Returned
    /\ result.status = "Defective"
    /\ LET rep == Reporting
           radii == rep.radii
       IN  \E j, d \in 1..Len(radii) :
              /\ IsJumpIndex(radii, j)
              /\ IsDeviationIndex(radii, d)
              /\ j # d
              /\ rep.contour[j] # rep.contour[d]
              /\ BelowMean(radii, j) # BelowMean(radii, d)
              /\ result.location = rep.contour[j]

\* C7: when the outer boundary has a jump above the threshold the result is
\* Defective, Cut if dev_radius < avg_radius and Flash otherwise.
C7_OuterCutOrFlash ==
    (Returned /\ Registered) =>
        LET ro == OuterRadii
        IN  JumpOver(ro) =>
                /\ result.status = "Defective"
                /\ DevBelowMean(ro) => result.defect_type = "Cut"
                /\ ~DevBelowMean(ro) => result.defect_type = "Flash"

C7_Witness ==
    /\ Returned
    /\ Registered
    /\ result.defect_type = "Cut"
    /\ LET ro == OuterRadii
       IN  JumpOver(ro) /\ DevBelowMean(ro)

\* C8: when the outer boundary is within the threshold and the inner one has
\* a jump above it the result is Defective, Flash if the inner dev_radius <
\* avg_radius and Cut otherwise; a single inward spike on an otherwise
\* circular inner boundary gives Flash, a single outward spike gives Cut.
C8_InnerFlashOrCut ==
    (Returned /\ Registered) =>
        LET ro == OuterRadii
            ri == InnerRadii
        IN  JumpWithin(ro) =>
                /\ JumpOver(ri) =>
                      /\ result.status = "Defective"
                      /\ DevBelowMean(ri) => result.defect_type = "Flash"
                      /\ ~DevBelowMean(ri) => result.defect_type = "Cut"
                /\ SpikeInward(ri) =>
                      (result.status = "Defective" /\ result.defect_type = "Flash")
                /\ SpikeOutward(ri) =>
                      (result.status = "Defective" /\ result.defect_type = "Cut")

C8_Witness ==
    /\ Returned
    /\ Registered
    /\ result.defect_type = "Flash"
    /\ LET ro == OuterRadii
           ri == InnerRadii
       IN  JumpWithin(ro) /\ SpikeInward(ri)

\* C9 as stated: an outer boundary circular about the center but for one
\* point displaced outward by more than 2.5 gives Defective / Cut, and with
\* the point displaced inward gives Defective / Flash.
C9_OutwardSpikeIsCut ==
    (Returned /\ Registered) =>
        LET ro == OuterRadii
        IN  /\ SpikeOutward(ro) =>
                  (result.status = "Defective" /\ result.defect_type = "Cut")
            /\ SpikeInward(ro) =>
                  (result.status = "Defective" /\ result.defect_type = "Flash")

\* C9 amended: an outer boundary circular about the center but for one point
\* displaced outward by more than 2.5 gives Defective / Flash, and with the
\* point displaced inward gives Defective / Cut.
C9_OutwardSpikeIsFlash ==
    (Returned /\ Registered) =>
        LET ro == OuterRadii
        IN  /\ SpikeOutward(ro) =>
                  (result.status = "Defective" /\ result.defect_type = "Flash")
            /\ SpikeInward(ro) =>
                  (result.status = "Defective" /\ result.defect_type = "Cut")

C9_Witness ==
    /\ Returned
    /\ Registered
    /\ result.status = "Defective"
    /\ result.defect_type = "Flash"
    /\ SpikeOutward(OuterRadii)

\* C10: an Error result of find_and_analyze_ring does not stop the batch: no
\* exception leaves run_inspection_pipeline while the result in hand is an
\* Error.
C10_ErrorDoesNotAbortBatch ==
    (result.status = "Error") => pc # "Raised"

\* the dict res has the key and holds a point (x, y) under it
Populated(res, key) ==
    key \in DOMAIN res /\ res[key] # NoPoint /\ Len(res[key]) = 2

\* C11: in every returned result location and center both hold a point if
\* and only if the status is Defective; a Good and an Error result hold a
\* point under neither.
C11_PointsIffDefective ==
    Returned =>
        /\ (Populated(result, "location") /\ Populated(result, "center"))
              <=> result.status = "Defective"
        /\ result.status \in {"Good", "Error"} =>
              (~Populated(result, "location") /\ ~Populated(result, "center"))

C11_Witness ==
    /\ Returned
    /\ result.status = "Defective"
    /\ Populated(result, "location")
    /\ Populated(result, "center")
    /\ \E i \in 1..Len(inner_contour) : result.location = inner_contour[i]

\* the for loop over the two boundaries is running
Scanning == pc \in {"AnomalyScanOuter", "AnomalyScanInner"}

ErrorMessages == {"Segmentation Failed", "Could not calculate moments"}

\* C12: no statement of a call can raise past the except clause (the
\* unpacking finds exactly two contours, the scan divides by no zero m00 and
\* takes the maximum of no empty array), and the result returned has status
\* Good, Defective or Error with defect_type Cut or Flash when Defective,
\* null when Good and one of the two error messages when Error; "Unknown" is
\* never returned.
C12_ThreeWayOutcome ==
    /\ pc = "CentroidRegistration" =>
          (Len(contours) = 2 /\ contours = <<outer_contour, inner_contour>>)
    /\ Scanning =>
          /\ moments(outer_contour).m00 # 0 /\ moments(inner_contour).m00 # 0
          /\ Len(outer_contour) >= 1 /\ Len(inner_contour) >= 1
    /\ Returned =>
          /\ result.status \in {"Good", "Defective", "Error"}
          /\ result.status = "Defective" => result.defect_type \in {"Cut", "Flash"}
          /\ result.status = "Good" => result.defect_type = "None"
          /\ result.status = "Error" => result.defect_type \in ErrorMessages
          /\ result.defect_type # "Unknown"

C12_Witness ==
    /\ Returned
    /\ result.status = "Defective"
    /\ result.defect_type = "Cut"
    /\ JumpWithin(OuterRadii)

\* both selected contours enclose a non-zero area
BothNonZeroArea ==
    /\ Len(Found) >= 2
    /\ contourArea2(outer_contour) > 0
    /\ contourArea2(inner_contour) > 0

\* C13: when the two selected contours have non-zero area and neither has a
\* circular jump above the threshold, the call returns status Good with
\* defect_type null and location null.
C13_GoodWithNulls ==
    (Returned /\ BothNonZeroArea) =>
        LET ro == OuterRadii
            ri == InnerRadii
        IN  (~JumpOver(ro) /\ ~JumpOver(ri)) =>
                result = [status |-> "Good", defect_type |-> "None", location |-> <<>>]

C13_Witness ==
    /\ Returned
    /\ BothNonZeroArea
    /\ Len(outer_contour) > 4
    /\ result = [status |-> "Good", defect_type |-> "None", location |-> <<>>]

\* the squared distance of the points p and q
Dist2(p, q) == (p[1] - q[1]) * (p[1] - q[1]) + (p[2] - q[2]) * (p[2] - q[2])

\* all points of the contour c are at one distance from ctr
Equidistant(c, ctr) ==
    \A i, j \in 1..Len(c) : Dist2(c[i], ctr) = Dist2(c[j], ctr)

\* C14: when all points of the outer contour are at one distance from the
\* registration center and all points of the inner contour are at one
\* distance from it, max_jump is 0 on both boundaries and the result is Good.
C14_CircularRingIsGood ==
    (/\ Returned
     /\ BothNonZeroArea
     /\ Equidistant(outer_contour, center)
     /\ Equidistant(inner_contour, center)) =>
        /\ MaxJump(Radii(outer_contour, center)) = 0
        /\ MaxJump(Radii(inner_contour, center)) = 0
        /\ result.status = "Good"

C14_Witness ==
    /\ Returned
    /\ BothNonZeroArea
    /\ Equidistant(outer_contour, center)
    /\ Equidistant(inner_contour, center)
    /\ Dist2(outer_contour[1], center) > Dist2(inner_contour[1], center)
    /\ result.status = "Good"

\* the call of worker w has returned
WReturned(w) == calls[w].pc = "Returned"

\* C15: calls keep no state between or across invocations: however the
\* steps of concurrent calls on the workers' images interleave, each call
\* returns the result the call returns when run on its own on its image.
C15_CallsIndependent ==
    \A w \in Workers :
        WReturned(w) => calls[w].result = find_and_analyze_ring(calls[w].image)

C15_Witness ==
    /\ \A w \in Workers : WReturned(w) /\ calls[w].overlapped
    /\ calls[1].image # calls[2].image
    /\ calls[1].result.status = "Defective"
    /\ calls[2].result.status = "Good"

Selected == outer_contour # NoContour

\* the i-th contour found ranks before the k-th: a larger area, or the same
\* area and an earlier place in the tracer's order
RanksBefore(i, k) ==
    \/ contourArea2(Found[i]) > contourArea2(Found[k])
    \/ contourArea2(Found[i]) = contourArea2(Found[k]) /\ i < k

\* C17: the outer and the inner contour are the first and the second of the
\* contours found when ranked by enclosed area, largest first, contours of
\* equal area in the tracer's order; the outer area is >= the inner area
\* and no other contour found has a larger area than the inner one.
C17_TopTwoByArea ==
    Selected =>
        \E i, j \in 1..Len(Found) :
            /\ i # j
            /\ outer_contour = Found[i]
            /\ inner_contour = Found[j]
            /\ contours = <<Found[i], Found[j]>>
            /\ contourArea2(outer_contour) >= contourArea2(inner_contour)
            /\ \A k \in (1..Len(Found)) \ {i} : RanksBefore(i, k)
            /\ \A k \in (1..Len(Found)) \ {i, j} :
                  /\ RanksBefore(j, k)
                  /\ contourArea2(Found[k]) <= contourArea2(inner_contour)

C17_Witness ==
    /\ Selected
    /\ Len(Found) = 3
    /\ contourArea2(Found[1]) < contourArea2(Found[2])
    /\ contourArea2(Found[2]) = contourArea2(Found[3])
    /\ Found[2] # Found[3]
    /\ outer_contour = Found[2]
    /\ inner_contour = Found[3]

\* the jump of radius between the last and the first point of a boundary
WrapJump(radii) == Abs(radii[1] - radii[Len(radii)])

\* that jump is above 2.5 pixels
WrapOver(radii) == 10 * WrapJump(radii) > JUMP_THRESHOLD * Scale

\* no jump between two successive points is larger than the wrap-around one
WrapIsLargest(radii) ==
    \A i \in 2..Len(radii) : Abs(radii[i] - radii[i - 1]) <= WrapJump(radii)

\* C18 as stated: a change of radius above the threshold between the last
\* and the first point of the boundary that reports makes the result
\* Defective with jump_index 0 and location the first point of the contour.
C18_WrapJumpLocatedAtFirstPoint ==
    (Returned /\ Registered) =>
        LET ro == OuterRadii
            ri == InnerRadii
        IN  /\ WrapOver(ro) =>
                  /\ result.status = "Defective"
                  /\ IsJumpIndex(ro, 1)
                  /\ result.location = outer_contour[1]
            /\ (JumpWithin(ro) /\ WrapOver(ri)) =>
                  /\ result.status = "Defective"
                  /\ IsJumpIndex(ri, 1)
                  /\ result.location = inner_contour[1]

\* C18 amended: the jumps are circular, the first point compared with the
\* last: a change of radius above the threshold between the last and the
\* first point of the boundary that reports makes the result Defective, and
\* when no jump between successive points of that boundary is larger,
\* jump_index is 0 and location is the first point of the contour.
C18_WrapJumpIsAJump ==
    (Returned /\ Registered) =>
        LET ro == OuterRadii
            ri == InnerRadii
        IN  /\ WrapOver(ro) =>
                  /\ result.status = "Defective"
                  /\ WrapIsLargest(ro) =>
                        (IsJumpIndex(ro, 1) /\ result.location = outer_contour[1])
            /\ (JumpWithin(ro) /\ WrapOver(ri)) =>
                  /\ result.status = "Defective"
                  /\ WrapIsLargest(ri) =>
                        (IsJumpIndex(ri, 1) /\ result.location = inner_contour[1])

C18_Witness ==
    /\ Returned
    /\ Registered
    /\ LET ro == OuterRadii
       IN  /\ WrapOver(ro)
           /\ WrapIsLargest(ro)
           /\ \A i \in 3..Len(ro) : 10 * JumpAt(ro, i - 1) <= JUMP_THRESHOLD * Scale
    /\ result.status = "Defective"
    /\ result.location = outer_contour[1]
    /\ outer_contour[1] # outer_contour[Len(outer_contour)]

\* the radius at index i is strictly above avg_radius
AboveMean(radii, i) == Len(radii) * radii[i] > SumSeq(radii)

\* the boundary scanned last in the current call, with the defect type its
\* else branch gives
ScannedLast ==
    IF \E i \in 1..Len(stages) : stages[i] = "AnomalyScanInner"
    THEN [radii |-> InnerRadii, else |-> "Cut"]
    ELSE [radii |-> OuterRadii, else |-> "Flash"]

\* dev_radius of the radii differs from avg_radius
DevOffMean(radii) ==
    \A d \in 1..Len(radii) :
        IsDeviationIndex(radii, d) => (AboveMean(radii, d) \/ BelowMean(radii, d))

\* C20: a boundary with a jump above the threshold has dev_radius different
\* from avg_radius; in a Defective result the boundary that reports has
\* dev_radius different from avg_radius, and the defect type of the else
\* branch (Flash outside, Cut inside) is given only with dev_radius strictly
\* above avg_radius.
C20_DevRadiusOffAverage ==
    (Returned /\ Registered) =>
        LET ro == OuterRadii
            ri == InnerRadii
            last == ScannedLast
        IN  /\ JumpOver(ro) => DevOffMean(ro)
            /\ JumpOver(ri) => DevOffMean(ri)
            /\ result.status = "Defective" =>
                  /\ DevOffMean(last.radii)
                  /\ result.defect_type = last.else =>
                        \A d \in 1..Len(last.radii) :
                            IsDeviationIndex(last.radii, d) => AboveMean(last.radii, d)

C20_Witness ==
    /\ Returned
    /\ Registered
    /\ result.status = "Defective"
    /\ result.defect_type = "Cut"
    /\ LET ri == InnerRadii
       IN  /\ JumpWithin(OuterRadii)
           /\ JumpOver(ri)
           /\ \E d \in 1..Len(ri) : IsDeviationIndex(ri, d) /\ AboveMean(ri, d)

\* the stages of a call, in order
StageOrder ==
    <<"Segmentation", "BoundarySelection", "CentroidRegistration",
      "AnomalyScanOuter", "AnomalyScanInner">>

\* the place of a control point of a call in that order, a return last
Rank(p) ==
    IF p = "LogResult" THEN Len(StageOrder) + 1
    ELSE CHOOSE k \in 1..Len(StageOrder) : StageOrder[k] = p

\* find_and_analyze_ring has been called and has not returned
InCall == \E k \in 1..Len(StageOrder) : StageOrder[k] = pc

\* the stages entered so far are the first ones of the order, each once, and
\* the call is in the last of them
StagesForward ==
    InCall =>
        /\ stages = SubSeq(StageOrder, 1, Len(stages))
        /\ stages[Len(stages)] = pc

\* a step taken inside a call moves to a later stage or returns
StepsForward ==
    InCall => (pc' = "LogResult" \/ pc' \in {StageOrder[k] : k \in 1..Len(StageOrder)})
              /\ Rank(pc') > Rank(pc)

\* the result is set once, by the step that returns, to one of the three
\* outcomes
OneOutcome ==
    (InCall /\ result' # result) =>
        /\ result = NoResult
        /\ pc' = "LogResult"
        /\ result'.status \in {"Error", "Defective", "Good"}

\* whatever the contours, the statement of the stage the call is in has a
\* defined outcome: the call takes its next step from every stage
CanStep ==
    /\ pc = "BoundarySelection" =>
          (TooFewContours(contours) \/ Len(SortByAreaDesc(contours)) >= 2)
    /\ pc = "CentroidRegistration" =>
          \/ ZeroDivisionError(moments(outer_contour), moments(inner_contour))
          \/ Len(RegistrationCenter(outer_contour, inner_contour)) = 2
    /\ pc = "AnomalyScanOuter" =>
          ExceedsThreshold(MaxJump(OuterRadii)) \in BOOLEAN
    /\ pc = "AnomalyScanInner" =>
          ExceedsThreshold(MaxJump(InnerRadii)) \in BOOLEAN

\* C19: a call enters the stages Segmentation, BoundarySelection,
\* CentroidRegistration, AnomalyScan(outer), AnomalyScan(inner) in that
\* order, each at most once and every step moving forward; from every stage
\* it takes a next step, so after at most five steps it has returned, with
\* exactly one outcome Error, Defective or Good set once; the inner scan is
\* entered only when the outer scan found no jump above the threshold, and
\* Good is returned only after both scans.
C19_SingleForwardPass ==
    /\ [](StagesForward /\ CanStep)
    /\ [][StepsForward /\ OneOutcome]_vars
    /\ [](Returned => /\ result.status \in {"Error", "Defective", "Good"}
                      /\ stages = SubSeq(StageOrder, 1, Len(stages)))
    /\ []((\E i \in 1..Len(stages) : stages[i] = "AnomalyScanInner") =>
              ~JumpOver(OuterRadii))
    /\ []((Returned /\ result.status = "Good") => stages = StageOrder)

C19_Witness ==
    /\ Returned
    /\ result.status = "Good"
    /\ stages = StageOrder
    /\ Len(Found) = MaxContours

\* the indices at which the radii are farthest from avg_radius, and those at
\* which the circular jump is largest
FarthestFromMean(radii) ==
    {i \in 1..Len(radii) :
        \A k \in 1..Len(radii) : DeviationAt(radii, k) <= DeviationAt(radii, i)}
LargestJumps(radii) ==
    {i \in 1..Len(radii) : \A k \in 1..Len(radii) : JumpAt(radii, k) <= JumpAt(radii, i)}

\* the earliest index of a non-empty set of indices
Earliest(S) == CHOOSE i \in S : \A k \in S : i <= k

\* C21: when several points of the reporting boundary are equally far from
\* avg_radius, the defect type is decided by the earliest of them in
\* traversal order; when several positions have the largest jump, location
\* is the contour point at the earliest of them.
C21_EarliestOnTies ==
    (Returned /\ result.status = "Defective") =>
        LET rep == Reporting
            radii == rep.radii
            d == Earliest(FarthestFromMean(radii))
            j == Earliest(LargestJumps(radii))
        IN  /\ result.defect_type = (IF BelowMean(radii, d) THEN rep.low ELSE rep.high)
            /\ result.location = rep.contour[j]

C21_Witness ==
    /\ Returned
    /\ result.status = "Defective"
    /\ result.defect_type = "Cut"
    /\ LET rep == Reporting
           radii == rep.radii
           far == FarthestFromMean(radii)
       IN  /\ BelowMean(radii, Earliest(far))
           /\ \E i \in far : AboveMean(radii, i)
           /\ Cardinality(LargestJumps(radii)) >= 2
           /\ result.location = rep.contour[1]

\* twice the exact midpoint of the two centroids in coordinate k, as the
\* fraction num / den
MidpointTwice(k) ==
    LET ao == CentroidNum(outer_contour, k)
        bo == CentroidDen(outer_contour)
        ai == CentroidNum(inner_contour, k)
        bi == CentroidDen(inner_contour)
    IN  [num |-> ao * bi + ai * bo, den |-> bo * bi,
         floors |-> (ao \div bo) + (ai \div bi), nonneg |-> ao >= 0 /\ ai >= 0]

\* C22: each coordinate of the center is the half-sum, truncated, of the two
\* centroid coordinates each truncated to an integer; with non-negative
\* centroid coordinates it is never above the exact midpoint of the two
\* centroids and less than 1.5 pixels below it.
C22_CenterWithinTruncationBound ==
    Registered =>
        \A k \in 1..2 :
            LET m == MidpointTwice(k)
            IN  m.nonneg =>
                    /\ center[k] = m.floors \div 2
                    /\ 2 * center[k] * m.den <= m.num
                    /\ m.num - 2 * center[k] * m.den < 3 * m.den

C22_Witness ==
    /\ Registered
    /\ \E k \in 1..2 :
          LET m == MidpointTwice(k)
          IN  /\ m.nonneg
              /\ CentroidNum(outer_contour, k) % CentroidDen(outer_contour) # 0
              /\ m.floors % 2 = 1
              /\ m.num - 2 * center[k] * m.den > m.den

\* the contours found that enclose a non-zero area, by index
WithArea == {i \in 1..Len(Found) : contourArea2(Found[i]) > 0}

\* C23: after selection, an outer contour of zero area comes with an inner
\* contour of zero area; with two or more contours found, "Could not
\* calculate moments" is returned if and only if the second-largest area
\* found is zero (fewer than two contours found have a non-zero area); the
\* scan runs only with both areas strictly positive.
C23_ZeroAreaSecondLargest ==
    /\ Selected =>
          (contourArea2(outer_contour) = 0 => contourArea2(inner_contour) = 0)
    /\ (Returned /\ Len(Found) >= 2) =>
          /\ result = [status |-> "Error", defect_type |-> "Could not calculate moments"]
                <=> contourArea2(inner_contour) = 0
          /\ contourArea2(inner_contour) = 0 <=> Cardinality(WithArea) < 2
    /\ Scanning =>
          (contourArea2(outer_contour) > 0 /\ contourArea2(inner_contour) > 0)

C23_Witness ==
    /\ Returned
    /\ Len(Found) = MaxContours
    /\ Cardinality(WithArea) = 1
    /\ contourArea2(Found[1]) = 0
    /\ contourArea2(outer_contour) > 0
    /\ contourArea2(inner_contour) = 0
    /\ result.defect_type = "Could not calculate moments"

\* the run of the pipeline is over: the list is exhausted or an exception
\* has left run_inspection_pipeline
Ended == pc \in {"Complete", "Raised"}

\* image i was analysed / visualised
Analysed(i) == \E n \in 1..Len(log) : log[n] = <<"INFO", "Analysis result", i>>
Visualised(i) == \E n \in 1..Len(saved) : saved[n] = i

\* image i was tried and failed to load
FailedToLoad(i) ==
    \E n \in 1..Len(log) : log[n] = <<"ERROR", "Could not load image", i>>

\* C24: an image that fails to load is neither analysed nor visualised;
\* images are handled in list order, one at a time; and when the run is
\* over every loadable image listed after an image that failed to load has
\* been analysed and visualised.
C24_LoadFailureSkipsOneImage ==
    /\ \A i \in 1..Len(image_files) :
          ~image_files[i].loads => (~Analysed(i) /\ ~Visualised(i))
    /\ \A n \in 2..Len(saved) : saved[n - 1] < saved[n]
    /\ \A n \in 2..Len(log) : log[n - 1][3] <= log[n][3] \/ log[n][3] = 0
    /\ \A i \in 1..Len(saved) : Analysed(saved[i])
    /\ Ended =>
          \A i, j \in 1..Len(image_files) :
              (i < j /\ FailedToLoad(i) /\ image_files[j].loads) =>
                  (Analysed(j) /\ Visualised(j))

\* how many times the pair x occurs in the list s
Occurrences(s, x) == Cardinality({i \in 1..Len(s) : s[i] = x})

\* the largest integer not above total * ratio
Floor(total, ratio) ==
    IF total * ratio >= 0 THEN (total * ratio) \div RatioUnit
    ELSE -((RatioUnit - 1 - total * ratio) \div RatioUnit)

\* C25: split_dataset partitions its input for every accepted ratio triple:
\* each pair is in exactly one of train, val and test, train has
\* floor(total * train_ratio) pairs, val has floor(total * val_ratio) pairs
\* and test has all the rest.
C25_SplitIsPartition ==
    splitter.pc = "Returned" =>
        LET sp == splitter.splits
            total == Len(splitter.pairs)
        IN  /\ \A x \in 1..total :
                  Occurrences(sp.train \o sp.val \o sp.test, x) = 1
            /\ Len(sp.train) = Floor(total, splitter.train_ratio)
            /\ Len(sp.val) = Floor(total, splitter.val_ratio)
            /\ Len(sp.test) = total - Len(sp.train) - Len(sp.val)

====
